---------------------------- MODULE Spec2Model ----------------------------
(***************************************************************************)
(* A model of GoodNameAlert: the FileDataStore of src/data_store.py and    *)
(* the Bot (dispatch registry, handlers, poll loop) of src/goodnamebot.py. *)
(*                                                                         *)
(* A text is a sequence of atoms; the Python string it stands for is the   *)
(* concatenation of its atoms.  The atoms are the blank " ", the line      *)
(* break, the letters "a" and "A", the character U+0149 and its cased      *)
(* forms, and the words                                                    *)
(* the configured triggers are made of, in the cases str.capitalize and    *)
(* re.IGNORECASE tell apart.  Python's None is the record None; a value v  *)
(* that is not None is Some(v).                                            *)
(*                                                                         *)
(* The model follows the meaning every statement has on Python 3, the      *)
(* interpreter the program is run with: a str is Unicode text, and         *)
(* dict.keys() is a view, which random.choice cannot index.                *)
(***************************************************************************)
EXTENDS Naturals, Sequences, FiniteSets

VARIABLES
    disk,        \* the backing document good_names.json, as it is on disk
    data,        \* FileDataStore.data
    name_map,    \* FileDataStore.name_map
    last,        \* the last call made on the store: operation, arguments, outcome
    calls,       \* the number of calls made on the store so far
    handlers,    \* Bot._handlers
    pc,          \* where the process is: main, Bot.run and its except clause
    batch,       \* the events of the current rtm_read() still to be handled
    event,       \* the event _handle_data was last called with
    hidx,        \* the handler _handle_data's comprehension is at, 0 when it is not running
    invoked,     \* the handlers' targets invoked for the current event, in order
    thrown,      \* the exception a handler has raised on the current event, "" if none
    caught,      \* the `e` of Bot.run's except clause, "" outside it
    sent,        \* every chat.postMessage made, in order
    received     \* the number of events rtm_read() has returned so far

storeVars == <<disk, data, name_map, last, calls>>
botVars == <<handlers, pc, batch, event, hidx, invoked, thrown, caught, sent, received>>
vars == <<disk, data, name_map, last, calls,
          handlers, pc, batch, event, hidx, invoked, thrown, caught, sent, received>>

---------------------------------------------------------------------------
(* Bounds of the model.                                                    *)

\* the longest text handed to the store directly, in atoms
MaxLen == 2
\* the number of calls made on the store
MaxCalls == 3
\* the number of events the transport delivers
MaxEvents == 2

---------------------------------------------------------------------------
(* Python values.                                                          *)

None == [isNone |-> TRUE, value |-> <<>>]
Some(v) == [isNone |-> FALSE, value |-> v]

\* the truth value Python gives a str-or-None: None and "" are false
Truthy(v) == ~v.isNone /\ v.value /= <<>>

---------------------------------------------------------------------------
(* Text.                                                                   *)

Blank == " "
Chars == {" ", "a", "A"}

\* the line break, and the characters str.strip() removes
Newline == "\n"
Whitespace == {Blank, Newline}

\* the character U+0149 (n preceded by apostrophe): a lower-case letter whose
\* title case is the two characters U+02BC and N, the atom "U+02BC N"
Apostrophe_n == "U+0149"

\* str.lower on one atom
Lower(c) ==
    CASE c = "A" -> "a"
      [] c = "Name alert" -> "name alert"
      [] c = "NAME ALERT" -> "name alert"
      [] c = "!GNA" -> "!gna"
      [] c = "U+02BC N" -> "U+02BC n"
      [] OTHER -> c

\* the atom with its first character upper-cased and the rest lower-cased
Title(c) ==
    CASE Lower(c) = "a" -> "A"
      [] Lower(c) = "name alert" -> "Name alert"
      [] c = Apostrophe_n -> "U+02BC N"
      [] OTHER -> Lower(c)

RECURSIVE lstrip(_)
lstrip(s) == IF s /= <<>> /\ Head(s) \in Whitespace THEN lstrip(Tail(s)) ELSE s

RECURSIVE rstrip(_)
rstrip(s) ==
    IF s /= <<>> /\ s[Len(s)] \in Whitespace THEN rstrip(SubSeq(s, 1, Len(s) - 1)) ELSE s

\* str.strip()
strip(s) == rstrip(lstrip(s))

\* str.capitalize()
capitalize(s) ==
    IF s = <<>> THEN <<>>
    ELSE [i \in 1..Len(s) |-> IF i = 1 THEN Title(s[i]) ELSE Lower(s[i])]

\* str(goodname).strip().capitalize()
normalize(s) == capitalize(strip(s))

Texts == UNION {[1..n -> Chars] : n \in 0..MaxLen} \cup {<<Apostrophe_n>>}


---------------------------------------------------------------------------
(* The backing document and the records in it.                             *)

Users == {"U1", "U2"}

\* vars(GoodName(good_name, added_by)): the fields the store reads; season,
\* votes and date_added are carried along and never read
GoodName(good_name, added_by) == [good_name |-> good_name, added_by |-> added_by]

\* what open(filename) / json.load find: no file, a file that is not a
\* document of the documented shape, or {"good_names": [...]}
Missing == [kind |-> "missing", good_names |-> <<>>]
Malformed == [kind |-> "malformed", good_names |-> <<>>]
Document(l) == [kind |-> "document", good_names |-> l]

\* dict([(d[KEY_NAME], GoodName(**d)) for d in l]): a later pair replaces an
\* earlier one with the same key
NameMapOf(l) ==
    [k \in {l[i].good_name : i \in 1..Len(l)} |->
        LET last_i == CHOOSE i \in 1..Len(l) :
                /\ l[i].good_name = k
                /\ \A j \in 1..Len(l) : l[j].good_name = k => j <= i
        IN GoodName(l[last_i].good_name, l[last_i].added_by)]

\* the result of one call on the store: the store after it, what the call
\* returned, the exception it raised ("" for none), and how its write of the
\* file went ("" when it wrote nothing)
Result(d, dt, nm, ret, exc, write) ==
    [disk |-> d, data |-> dt, name_map |-> nm, ret |-> ret, exc |-> exc, write |-> write]

\* FileDataStore.connect
connect(d, dt, nm) ==
    IF d.kind = "document"
    THEN Result(d, Some(d.good_names), Some(NameMapOf(d.good_names)), None, "", "")
    ELSE Result(d, None, nm, None, "", "")

\* what open(filename, 'w') and json.dump can do: succeed, fail at open (the
\* file is left as it was), or fail after open has truncated the file
WriteOutcomes == {"ok", "open_fails", "dump_fails"}

\* the file after `with open(filename, 'w') as fout: json.dump(data, fout)`
Written(d, l, w) ==
    CASE w = "ok" -> Document(l)
      [] w = "open_fails" -> d
      [] OTHER -> Malformed

\* add_good_name without the test `goodname not in self.name_map`
add_good_name_always_adds(d, dt, nm, goodname, requester, w) ==
    LET g == normalize(goodname)
        n == GoodName(g, requester)
    IN  IF nm.isNone
        THEN Result(d, dt, nm, None, "TypeError", "")
        ELSE LET nm2 == Some([k \in DOMAIN nm.value \cup {g} |->
                                 IF k = g THEN n ELSE nm.value[k]])
             IN  IF dt.isNone
                 THEN Result(d, dt, nm2, None, "TypeError", "")
                 ELSE LET dt2 == Some(Append(dt.value, n))
                      IN  Result(Written(d, dt2.value, w), dt2, nm2,
                                 IF w = "ok" THEN Some(g) ELSE None, "", w)

\* add_good_name with `return goodname` moved out of the try block
add_good_name_returns_after_failure(d, dt, nm, goodname, requester, w) ==
    LET g == normalize(goodname)
        n == GoodName(g, requester)
    IN  IF nm.isNone
        THEN Result(d, dt, nm, None, "TypeError", "")
        ELSE IF g \in DOMAIN nm.value
        THEN Result(d, dt, nm, None, "", "")
        ELSE LET nm2 == Some([k \in DOMAIN nm.value \cup {g} |->
                                 IF k = g THEN n ELSE nm.value[k]])
             IN  IF dt.isNone
                 THEN Result(d, dt, nm2, None, "TypeError", "")
                 ELSE LET dt2 == Some(Append(dt.value, n))
                      IN  Result(Written(d, dt2.value, w), dt2, nm2, Some(g), "", w)

\* FileDataStore.add_good_name
add_good_name(d, dt, nm, goodname, requester, w) ==
    LET g == normalize(goodname)
        n == GoodName(g, requester)
    IN  IF nm.isNone
        THEN Result(d, dt, nm, None, "TypeError", "")
        ELSE IF g \in DOMAIN nm.value
        THEN Result(d, dt, nm, None, "", "")
        ELSE LET nm2 == Some([k \in DOMAIN nm.value \cup {g} |->
                                 IF k = g THEN n ELSE nm.value[k]])
             IN  IF dt.isNone
                 THEN Result(d, dt, nm2, None, "TypeError", "")
                 ELSE LET dt2 == Some(Append(dt.value, n))
                      IN  Result(Written(d, dt2.value, w), dt2, nm2,
                                 IF w = "ok" THEN Some(g) ELSE None, "", w)

\* the answers of the file system to a call of add_good_name: one when the
\* call does not come to write
WritesOf(d, dt, nm, goodname, requester) ==
    IF add_good_name(d, dt, nm, goodname, requester, "ok").write = ""
    THEN {"ok"}
    ELSE WriteOutcomes

\* FileDataStore.is_resource_connected
is_resource_connected(dt) == ~dt.isNone

\* FileDataStore.get_good_name: random.choice(self.name_map.keys()) raises
\* IndexError on an empty view and, indexing a view that holds keys,
\* TypeError ('dict_keys' object is not subscriptable)
get_good_name(d, dt, nm) ==
    IF ~is_resource_connected(dt)
    THEN {Result(d, dt, nm, None, "", "")}
    ELSE IF DOMAIN nm.value = {}
    THEN {Result(d, dt, nm, None, "IndexError", "")}
    ELSE {Result(d, dt, nm, None, "TypeError", "")}

\* a bool a call returns, as Python prints it
Bool(b) == Some(IF b THEN <<"True">> ELSE <<"False">>)

\* the record of a call
Call(op, goodname, requester, r) ==
    [op |-> op, goodname |-> goodname, requester |-> requester,
     ret |-> r.ret, exc |-> r.exc, write |-> r.write]

NoCall == [op |-> "", goodname |-> <<>>, requester |-> "",
           ret |-> None, exc |-> "", write |-> ""]

\* the store takes the state a call left it in
StoreBecomes(op, goodname, requester, r) ==
    /\ disk' = r.disk
    /\ data' = r.data
    /\ name_map' = r.name_map
    /\ last' = Call(op, goodname, requester, r)
    /\ calls' = calls + 1

---------------------------------------------------------------------------
(* The documents the store is started on.                                  *)

\* names found in a hand-kept document: in normal form or not
DocNames == {<<"A">>, <<"A", "A">>}
DocRecords == {GoodName(n, u) : n \in DocNames, u \in {"U1"}}

\* no two records of a document have the same normalized name
WellFormed(l) ==
    \A i, j \in 1..Len(l) :
        normalize(l[i].good_name) = normalize(l[j].good_name) => i = j

InitialDocuments ==
    {Document(l) : l \in {x \in UNION {[1..n -> DocRecords] : n \in 0..1} : WellFormed(x)}}

InitialDisks == {Missing, Malformed} \cup InitialDocuments

---------------------------------------------------------------------------
(* Events of the transport.                                                *)

\* one item of rtm_read(): a dict with type, user, channel and, when
\* text.isNone is false, text
Event(type, text, user, channel) ==
    [type |-> type, text |-> text, user |-> user, channel |-> channel]

NoEvent == Event("", None, "", "")

---------------------------------------------------------------------------
(* The store used directly: FileDataStore(filename), then any calls.       *)

Connect ==
    /\ calls < MaxCalls
    /\ \E r \in {connect(disk, data, name_map)} : StoreBecomes("connect", <<>>, "", r)
    /\ UNCHANGED botVars

AddGoodName ==
    /\ calls < MaxCalls
    /\ \E goodname \in Texts, requester \in Users :
          \E w \in WritesOf(disk, data, name_map, goodname, requester) :
             \E r \in {add_good_name(disk, data, name_map, goodname, requester, w)} :
                StoreBecomes("add_good_name", goodname, requester, r)
    /\ UNCHANGED botVars

GetGoodName ==
    /\ calls < MaxCalls
    /\ \E r \in get_good_name(disk, data, name_map) :
          StoreBecomes("get_good_name", <<>>, "", r)
    /\ UNCHANGED botVars

IsResourceConnected ==
    /\ calls < MaxCalls
    /\ StoreBecomes("is_resource_connected", <<>>, "",
                    Result(disk, data, name_map,
                           Bool(is_resource_connected(data)), "", ""))
    /\ UNCHANGED botVars

BotIdle ==
    /\ handlers = <<>>
    /\ pc = "unused"
    /\ batch = <<>>
    /\ event = NoEvent
    /\ hidx = 0
    /\ invoked = <<>>
    /\ thrown = ""
    /\ caught = ""
    /\ sent = <<>>
    /\ received = 0

\* FileDataStore.__init__ with connect=False
StoreInit ==
    /\ disk \in InitialDisks
    /\ data = None
    /\ name_map = None
    /\ last = NoCall
    /\ calls = 0
    /\ BotIdle

StoreNext == Connect \/ AddGoodName \/ GetGoodName \/ IsResourceConnected

StoreSpec == StoreInit /\ [][StoreNext]_vars


---------------------------------------------------------------------------
(* The dispatch registry: Bot.__init__ and MessageHandler.                 *)

\* the triggers of the configuration, as what re.compile(trigger,
\* re.IGNORECASE).match does with them:
\*   .*name alert.*   matches a text whose first line holds "name alert"
\*   !gna(.+)         matches a text whose first line starts with "!gna" and
\*                    goes on; group(1) is the rest of that line
\* ("." matches no line break: the patterns are compiled without re.DOTALL)
AlertTrigger == [kind |-> "contains", word |-> "name alert"]
AddTrigger == [kind |-> "prefix", word |-> "!gna"]

\* the text up to its first line break
RECURSIVE FirstLine(_)
FirstLine(text) ==
    IF text = <<>> \/ Head(text) = Newline THEN <<>>
    ELSE <<Head(text)>> \o FirstLine(Tail(text))

\* regex.match(text): whether it matched, and match.group(1), which is None
\* here when the pattern has no group
regex_match(regex, text) ==
    LET line == FirstLine(text)
    IN  IF regex.kind = "contains"
        THEN [matched |-> \E i \in 1..Len(line) : Lower(line[i]) = regex.word,
              group1 |-> None]
        ELSE IF Len(line) >= 2 /\ Lower(line[1]) = regex.word
             THEN [matched |-> TRUE, group1 |-> Some(Tail(line))]
             ELSE [matched |-> FALSE, group1 |-> None]

\* the methods of Bot that take (data, match)
Targets == {"post_good_name_alert", "add_good_name", "missing_action"}

\* the methods of Bot that cannot be called with (data, match): they take
\* fewer positional arguments, or (__init__) more
OtherMethods == {"rtm_read", "initialize", "_log_and_return", "_handle_data", "run", "__init__"}

\* the methods of Bot that take two positional arguments of another meaning:
\* send_msg(target_id, text) and api_call(method, timeout)
Callable2 == {"send_msg", "api_call"}

\* the attributes __init__ has set before it builds the handlers: objects
\* that are not functions and have no __name__
Fields == {"data_store", "logger"}

\* the attributes every instance has from object: the callables that raise
\* TypeError when called with (data, match), the one that takes any
\* arguments and does nothing, and the ones that have no __name__
InheritedMethods ==
    {"__class__", "__delattr__", "__dir__", "__eq__", "__format__", "__ge__",
     "__getattribute__", "__getstate__", "__gt__", "__hash__", "__init_subclass__",
     "__le__", "__lt__", "__ne__", "__new__", "__reduce__", "__reduce_ex__",
     "__repr__", "__setattr__", "__sizeof__", "__str__"}
InheritedNoOp == {"__subclasshook__"}
InheritedFields == {"__dict__", "__doc__", "__module__", "__weakref__"}

\* the method of the base class SlackClient the source calls, as
\* self.rtm_connect() in Bot.initialize: an attribute of every Bot, a
\* function with a __name__, which does not take (data, match)
SlackClientMethods == {"rtm_connect"}

\* getattr(self, action, self.missing_action): every attribute the instance
\* has from Bot, from object and, as far as the source shows them, from
\* SlackClient is found; the default is for the names that are no attribute
\* ("vote", or "_handlers", which is not assigned yet)
Resolve(action) ==
    IF action \in Targets \cup OtherMethods \cup Callable2 \cup Fields
                  \cup InheritedMethods \cup InheritedNoOp \cup InheritedFields
                  \cup SlackClientMethods
    THEN action
    ELSE "missing_action"

\* MessageHandler.__init__ reads target.__name__: AttributeError on a target
\* that is not a function, which ends Bot.__init__ and main
Constructs(actions) ==
    \A i \in 1..Len(actions) : Resolve(actions[i].action) \notin Fields \cup InheritedFields

\* [MessageHandler(re.compile(a['trigger'], re.IGNORECASE), getattr(...)) for a in actions]
MessageHandlers(actions) ==
    [i \in 1..Len(actions) |->
        [regex |-> actions[i].trigger, target |-> Resolve(actions[i].action)]]

\* the "actions" lists of the configurations the bot is started with
Configs ==
    { << [trigger |-> AlertTrigger, action |-> "post_good_name_alert"],
         [trigger |-> AddTrigger, action |-> "add_good_name"] >>,
      << [trigger |-> AddTrigger, action |-> "add_good_name"],
         [trigger |-> AddTrigger, action |-> "vote"],
         [trigger |-> AlertTrigger, action |-> "post_good_name_alert"] >>,
      << [trigger |-> AlertTrigger, action |-> "run"] >>,
      << [trigger |-> AlertTrigger, action |-> "rtm_connect"] >>,
      << [trigger |-> AlertTrigger, action |-> "logger"],
         [trigger |-> AddTrigger, action |-> "add_good_name"] >> }

---------------------------------------------------------------------------
(* The handlers.                                                           *)

\* str.format of a value that is a str or None
Str(v) == IF v.isNone THEN <<"None">> ELSE v.value

\* one chat.postMessage
Msg(channel, text) == [channel |-> channel, text |-> text]

\* Bot.send_msg: the messages posted; a result that is not ok is logged only
send_msg(target_id, text) == <<Msg(target_id, text)>>

\* what invoking a target does: the store call it makes (called), the state
\* it leaves the store in and the exception it raises (r), the messages it posts
Outcome(called, op, goodname, requester, r, msgs) ==
    [called |-> called, call |-> Call(op, goodname, requester, r), r |-> r, msgs |-> msgs]

\* Bot.post_good_name_alert
post_good_name_alert(d, dt, nm, ev) ==
    { Outcome(TRUE, "get_good_name", <<>>, "", r,
              IF r.exc = ""
              THEN send_msg(ev.channel, <<"Good name: ">> \o Str(r.ret))
              ELSE <<>>) : r \in get_good_name(d, dt, nm) }

\* Bot.add_good_name; match.group(1) raises IndexError ("no such group")
\* when the pattern of the binding has no group
Bot_add_good_name(d, dt, nm, ev, group1) ==
    IF group1.isNone
    THEN { Outcome(FALSE, "", <<>>, "", Result(d, dt, nm, None, "IndexError", ""), <<>>) }
    ELSE
    { LET r == add_good_name(d, dt, nm, group1.value, ev.user, w)
      IN  Outcome(TRUE, "add_good_name", group1.value, ev.user, r,
                  IF r.exc = "" /\ Truthy(r.ret)
                  THEN send_msg(ev.channel,
                                <<"Good name ">> \o r.ret.value \o <<" recorded.">>)
                  ELSE <<>>) : w \in WritesOf(d, dt, nm, group1.value, ev.user) }

\* Bot.missing_action
missing_action(d, dt, nm) ==
    { Outcome(FALSE, "", <<>>, "", Result(d, dt, nm, None, "", ""), <<>>) }

\* self.target(data, match)
Invoke(target, d, dt, nm, ev, m) ==
    CASE target = "post_good_name_alert" -> post_good_name_alert(d, dt, nm, ev)
      [] target = "add_good_name" -> Bot_add_good_name(d, dt, nm, ev, m.group1)
      [] target \in OtherMethods \cup InheritedMethods \cup SlackClientMethods ->
            \* called with the wrong number of arguments
            { Outcome(FALSE, "", <<>>, "", Result(d, dt, nm, None, "TypeError", ""), <<>>) }
      [] target = "send_msg" ->
            \* send_msg(data, match): a chat.postMessage whose channel is the
            \* event and whose text is the match object
            { Outcome(FALSE, "", <<>>, "", Result(d, dt, nm, None, "", ""), send_msg(ev, m)) }
      [] target = "api_call" ->
            \* api_call(data, match): a call whose method is the event, which is
            \* no chat.postMessage
            { Outcome(FALSE, "", <<>>, "", Result(d, dt, nm, None, "", ""), <<>>) }
      [] target \in InheritedNoOp ->
            \* takes any arguments, returns NotImplemented
            { Outcome(FALSE, "", <<>>, "", Result(d, dt, nm, None, "", ""), <<>>) }
      [] OTHER -> missing_action(d, dt, nm)

\* the match MessageHandler.handle_message makes
Match(h, ev) == regex_match(h.regex, strip(ev.text.value))

\* the early return without the strip of the text
Filtered_without_strip(ev) ==
    \/ ev.type /= "message"
    \/ (IF ev.text.isNone THEN <<>> ELSE ev.text.value) = <<>>

\* the condition of Bot._handle_data's early return
Filtered(ev) ==
    \/ ev.type /= "message"
    \/ strip(IF ev.text.isNone THEN <<>> ELSE ev.text.value) = <<>>

---------------------------------------------------------------------------
(* The events the transport delivers.                                      *)

EventTexts ==
    { <<"!gna", " ", "a">>,
      <<"!gna", "A", "name alert">>,
      <<" ", "NAME ALERT">>,
      <<"name alert">>,
      <<"!gna", " ", Newline, "a">>,
      <<"a", Newline, "name alert">>,
      <<Newline, " ">> }

Senders == {<<"U1", "C1">>, <<"U2", "C2">>}

Events ==
    {Event("message", Some(t), s[1], s[2]) : t \in EventTexts, s \in Senders}
    \cup { Event("message", None, "U1", "C1"),
           Event("message", Some(<<>>), "U1", "C1"),
           Event("hello", Some(<<"name alert">>), "U1", "C1") }

Batches(n) == UNION {[1..k -> Events] : k \in 0..n}

---------------------------------------------------------------------------
(* The "debug_calls" of the configuration.                                 *)

\* one item of debug_calls: the arguments of an api_call; method is "" when
\* the item has no "method" key
DebugCall(method, channel, text) == [method |-> method, channel |-> channel, text |-> text]

\* the lists the bot is started with: none (the default), a chat.postMessage,
\* an item without a method
DebugCallLists ==
    { <<>>,
      <<DebugCall("chat.postMessage", "C1", <<"Good name ", "A", " recorded.">>)>>,
      <<DebugCall("", "C1", <<>>)>> }

\* perform_debug_calls: client.api_call(**call) for each call in turn; a call
\* without a method raises TypeError, which ends the loop
RECURSIVE perform_debug_calls(_)
perform_debug_calls(debug_calls) ==
    IF debug_calls = <<>> THEN [msgs |-> <<>>, exc |-> ""]
    ELSE IF Head(debug_calls).method = "" THEN [msgs |-> <<>>, exc |-> "TypeError"]
    ELSE LET rest == perform_debug_calls(Tail(debug_calls))
             call == Head(debug_calls)
         IN  [msgs |-> (IF call.method = "chat.postMessage"
                        THEN <<Msg(call.channel, call.text)>>
                        ELSE <<>>) \o rest.msgs,
              exc |-> rest.exc]

---------------------------------------------------------------------------
(* The process: main, Bot.initialize, Bot.run.                             *)

\* the state of the loop once the current event is done with
AfterEvent(rest) ==
    /\ hidx' = 0
    /\ batch' = rest
    /\ pc' = IF rest = <<>> THEN "RUNNING" ELSE "HANDLING"

\* client.initialize() in main: rtm_connect() succeeds, or initialize raises
\* and the process ends
Initialize ==
    /\ pc = "initialize"
    /\ \E connected \in BOOLEAN : pc' = IF connected THEN "debug_calls" ELSE "DEAD"
    /\ UNCHANGED <<handlers, batch, event, hidx, invoked, thrown, caught, sent, received>>
    /\ UNCHANGED storeVars

\* perform_debug_calls(client, kwargs.get("debug_calls", [])) in main: the
\* calls are made, or one of them raises and the process ends
PerformDebugCalls ==
    /\ pc = "debug_calls"
    /\ \E debug_calls \in DebugCallLists :
          \E r \in {perform_debug_calls(debug_calls)} :
             /\ sent' = sent \o r.msgs
             /\ pc' = IF r.exc = "" THEN "RUNNING" ELSE "DEAD"
    /\ UNCHANGED <<handlers, batch, event, hidx, invoked, thrown, caught, received>>
    /\ UNCHANGED storeVars

\* self.rtm_read() returns a list of events
RtmRead ==
    /\ pc = "RUNNING"
    /\ received < MaxEvents
    /\ \E b \in Batches(MaxEvents - received) :
          /\ batch' = b
          /\ received' = received + Len(b)
          /\ pc' = IF b = <<>> THEN "RUNNING" ELSE "HANDLING"
    /\ UNCHANGED <<handlers, event, hidx, invoked, thrown, caught, sent>>
    /\ UNCHANGED storeVars

\* self.rtm_read() raises
RtmReadRaises ==
    /\ pc = "RUNNING"
    /\ pc' = "RECOVERING"
    /\ caught' = "TransportError"
    /\ UNCHANGED <<handlers, batch, event, hidx, invoked, thrown, sent, received>>
    /\ UNCHANGED storeVars

\* Bot._handle_data is called with the next item of the batch
HandleData ==
    /\ pc = "HANDLING"
    /\ hidx = 0
    /\ batch /= <<>>
    /\ event' = Head(batch)
    /\ invoked' = <<>>
    /\ thrown' = ""
    /\ IF Filtered(Head(batch)) \/ handlers = <<>>
       THEN AfterEvent(Tail(batch))
       ELSE /\ hidx' = 1
            /\ batch' = Tail(batch)
            /\ pc' = "HANDLING"
    /\ UNCHANGED <<handlers, caught, sent, received>>
    /\ UNCHANGED storeVars

\* h.handle_message(data) for the next h of self._handlers
HandleMessage ==
    /\ pc = "HANDLING"
    /\ hidx \in 1..Len(handlers)
    /\ LET h == handlers[hidx]
           m == Match(h, event)
       IN  IF ~m.matched
           THEN /\ IF hidx = Len(handlers)
                   THEN AfterEvent(batch)
                   ELSE hidx' = hidx + 1 /\ UNCHANGED <<batch, pc>>
                /\ UNCHANGED <<invoked, thrown, caught, sent>>
                /\ UNCHANGED storeVars
           ELSE \E o \in Invoke(h.target, disk, data, name_map, event, m) :
                /\ invoked' = Append(invoked, hidx)
                /\ disk' = o.r.disk
                /\ data' = o.r.data
                /\ name_map' = o.r.name_map
                /\ last' = IF o.called THEN o.call ELSE last
                /\ calls' = IF o.called THEN calls + 1 ELSE calls
                /\ sent' = sent \o o.msgs
                /\ thrown' = o.r.exc
                /\ IF o.r.exc /= ""
                   THEN /\ hidx' = 0
                        /\ batch' = <<>>
                        /\ pc' = "RECOVERING"
                        /\ caught' = o.r.exc
                   ELSE /\ caught' = caught
                        /\ IF hidx = Len(handlers)
                           THEN AfterEvent(batch)
                           ELSE hidx' = hidx + 1 /\ UNCHANGED <<batch, pc>>
    /\ UNCHANGED <<handlers, event, received>>

\* the except clause of Bot.run: self.initialize(), which raises out of run
\* when rtm_connect() fails
Recover ==
    /\ pc = "RECOVERING"
    /\ \E connected \in BOOLEAN :
          IF connected
          THEN pc' = "RUNNING" /\ caught' = ""
          ELSE pc' = "DEAD" /\ caught' = caught
    /\ UNCHANGED <<handlers, batch, event, hidx, invoked, thrown, sent, received>>
    /\ UNCHANGED storeVars

\* main: Bot(token, actions, FileDataStore('good_names.json', connect=True));
\* when Bot.__init__ raises, _handlers is never assigned and the process ends
Init ==
    /\ \E d \in InitialDisks :
          LET r == connect(d, None, None)
          IN  /\ disk = r.disk
              /\ data = r.data
              /\ name_map = r.name_map
    /\ last = NoCall
    /\ calls = 0
    /\ \E c \in Configs :
          IF Constructs(c)
          THEN handlers = MessageHandlers(c) /\ pc = "initialize"
          ELSE handlers = <<>> /\ pc = "DEAD"
    /\ batch = <<>>
    /\ event = NoEvent
    /\ hidx = 0
    /\ invoked = <<>>
    /\ thrown = ""
    /\ caught = ""
    /\ sent = <<>>
    /\ received = 0

Next == Initialize \/ PerformDebugCalls \/ RtmRead \/ RtmReadRaises \/ HandleData \/ HandleMessage \/ Recover

Spec == Init /\ [][Next]_vars


---------------------------------------------------------------------------
(* What the claims are stated with.                                        *)

\* a step is a call of add_good_name on the store
AddCalled == calls' = calls + 1 /\ last'.op = "add_good_name"

\* the keys of name_map
Keys(nm) == IF nm.isNone THEN {} ELSE DOMAIN nm.value

\* the records of the document on disk, as connect() would load them
OnDisk(d) == IF d.kind = "document" THEN d.good_names ELSE <<>>

\* the positions of the records named g in the list l
Named(l, g) == {i \in 1..Len(l) : l[i].good_name = g}

FailedWrites == {"open_fails", "dump_fails"}

\* the messages a step posts
NewMessages == SubSeq(sent', Len(sent) + 1, Len(sent'))

\* a step invokes the target of the handler at hidx, whose pattern matched
HandlerRuns ==
    /\ pc = "HANDLING"
    /\ hidx \in 1..Len(handlers)
    /\ invoked' = Append(invoked, hidx)

\* a step invokes Bot.add_good_name
AddHandlerRuns == HandlerRuns /\ handlers[hidx].target = "add_good_name"

---------------------------------------------------------------------------
(* C1: adding a text whose normalized form is already a key of a connected *)
(* store returns None (not added), writes nothing, and leaves the number   *)
(* of entries of the in-memory map, of the in-memory list and of the       *)
(* document on disk as they were.                                          *)
C1_DuplicateAddChangesNothing ==
    [][ ( /\ AddCalled
          /\ is_resource_connected(data)
          /\ normalize(last'.goodname) \in Keys(name_map) )
        => ( /\ last'.ret = None
             /\ last'.exc = ""
             /\ last'.write = ""
             /\ disk' = disk
             /\ Cardinality(Keys(name_map')) = Cardinality(Keys(name_map))
             /\ Len(data'.value) = Len(data.value)
             /\ Len(OnDisk(disk')) = Len(OnDisk(disk)) ) ]_vars

\* a duplicate was offered to a connected store that holds entries
C1_Witness ==
    /\ last.op = "add_good_name"
    /\ is_resource_connected(data)
    /\ last.write = ""
    /\ last.exc = ""
    /\ normalize(last.goodname) \in Keys(name_map)
    /\ last.goodname /= normalize(last.goodname)
    /\ Len(OnDisk(disk)) >= 1

(* C2: adding a text whose normalized form is new to a connected store,    *)
(* with a write that succeeds, returns the normalized text; the in-memory  *)
(* map then holds that key, get_good_name can return it, and the document  *)
(* on disk, loaded again, holds exactly one record with that good_name,    *)
(* whose added_by is the requester.                                        *)
C2_NewAddIsStored ==
    [][ ( /\ AddCalled
          /\ is_resource_connected(data)
          /\ normalize(last'.goodname) \notin Keys(name_map)
          /\ last'.write = "ok" )
        => \A g \in {normalize(last'.goodname)}, reloaded \in {connect(disk', None, None)} :
               /\ last'.ret = Some(g)
               /\ g \in Keys(name_map')
               /\ \E r \in get_good_name(disk', data', name_map') : r.ret = Some(g)
               /\ is_resource_connected(reloaded.data)
               /\ Cardinality(Named(reloaded.data.value, g)) = 1
               /\ \A i \in Named(reloaded.data.value, g) :
                     reloaded.data.value[i].added_by = last'.requester
               /\ g \in Keys(reloaded.name_map) ]_vars

(* C3: after connect() on a well-formed document and any calls of          *)
(* add_good_name, no two entries of the store, in the in-memory map or in  *)
(* the list on disk, have the same case-normalized text.                   *)
C3_NamesUniqueNormalized ==
    is_resource_connected(data)
    => /\ \A k1, k2 \in Keys(name_map) : normalize(k1) = normalize(k2) => k1 = k2
       /\ WellFormed(OnDisk(disk))

(* C4: when the write inside add_good_name fails, the call returns None    *)
(* and the in-memory map does not keep the text, so that the names of the  *)
(* in-memory map are those of the document on disk.                        *)
C4_FailedWriteRolledBack ==
    (last.op = "add_good_name" /\ last.write \in FailedWrites)
    => /\ last.ret = None
       /\ normalize(last.goodname) \notin Keys(name_map)
       /\ Keys(name_map) = {OnDisk(disk)[i].good_name : i \in 1..Len(OnDisk(disk))}

\* a confirmation message of Bot.add_good_name, and the name it gives
IsConfirmation(m) ==
    /\ Len(m.text) >= 2
    /\ m.text[1] = "Good name "
    /\ m.text[Len(m.text)] = " recorded."
ConfirmedName(m) == SubSeq(m.text, 2, Len(m.text) - 1)

(* C5: an insertion is on disk before it is acknowledged: when             *)
(* add_good_name returns the normalized text, and when Bot.add_good_name   *)
(* posts its confirmation, the document on disk holds the record of that   *)
(* text, added by the requester.                                           *)
C5_WrittenBeforeAcknowledged ==
    [][ /\ (AddCalled /\ ~last'.ret.isNone)
           => \E i \in Named(OnDisk(disk'), last'.ret.value) :
                 OnDisk(disk')[i].added_by = last'.requester
        /\ \A j \in (Len(sent) + 1)..Len(sent') :
              (HandlerRuns /\ IsConfirmation(sent'[j]))
              => /\ AddCalled
                 /\ Named(OnDisk(disk'), ConfirmedName(sent'[j])) /= {}
                 /\ \A i \in Named(OnDisk(disk'), ConfirmedName(sent'[j])) :
                       OnDisk(disk')[i].added_by = event.user ]_vars

\* the bot has confirmed an insertion made after an earlier one
C5_Witness ==
    /\ last.op = "add_good_name"
    /\ ~last.ret.isNone
    /\ sent /= <<>>
    /\ IsConfirmation(sent[Len(sent)])
    /\ ConfirmedName(sent[Len(sent)]) = last.ret.value
    /\ Len(OnDisk(disk)) >= 2

(* C6: get_good_name on a store that is disconnected, or connected with no *)
(* entries, returns None and raises nothing.                               *)
C6_GetOnEmptyReturnsNone ==
    (last.op = "get_good_name" /\ (~is_resource_connected(data) \/ Keys(name_map) = {}))
    => (last.ret = None /\ last.exc = "")

(* C7: after connect() on a missing or malformed document the store is not *)
(* connected, every later call on it returns its degraded result and       *)
(* raises nothing, and so no command handled while the store is            *)
(* unavailable sends Bot.run into its except clause.                       *)
C7_DisconnectedStoreNeverRaises ==
    (disk.kind /= "document" /\ name_map.isNone)
    => /\ ~is_resource_connected(data)
       /\ last.exc = ""
       /\ thrown = ""
       /\ caught \in {"", "TransportError"}

(* C8: is_resource_connected() is true exactly when connect() succeeded    *)
(* and no write of add_good_name has failed since; after a failed write it *)
(* is false.                                                               *)
C8_ConnectedIffLoadedAndNoFailedWrite ==
    /\ last.op = "connect" => (is_resource_connected(data) <=> disk.kind = "document")
    /\ (last.op = "add_good_name" /\ last.write \in FailedWrites)
       => ~is_resource_connected(data)

\* _handle_data has run its handlers on the event, to the end or to an exception
Dispatched == hidx = 0 /\ event /= NoEvent /\ ~Filtered(event)

\* the handlers whose pattern matches the event, in registration order
RECURSIVE MatchingFrom(_)
MatchingFrom(i) ==
    IF i > Len(handlers) THEN <<>>
    ELSE (IF Match(handlers[i], event).matched THEN <<i>> ELSE <<>>) \o MatchingFrom(i + 1)

(* C9: dispatch evaluates all bindings: for every message line the handler *)
(* of every binding whose pattern matches is invoked exactly once, in      *)
(* registration order.                                                     *)
C9_EveryMatchInvokedInOrder ==
    Dispatched => invoked = MatchingFrom(1)

(* C10: a handler that raises is caught per binding: every later binding   *)
(* whose pattern matches the same line still has its handler invoked, and  *)
(* the exception does not reach Bot.run.                                   *)
C10_FailureIsolatedPerBinding ==
    (Dispatched /\ thrown /= "")
    => /\ \A i \in 1..Len(handlers) :
             Match(handlers[i], event).matched => \E j \in 1..Len(invoked) : invoked[j] = i
       /\ caught /= thrown

---------------------------------------------------------------------------
(* C11: the poll loop has no terminal state after startup: an exception    *)
(* that escapes a receive/dispatch cycle is followed by one connect and    *)
(* the loop is RUNNING again; no failure after startup, a failed reconnect *)
(* included, ends the loop.  The process is ended ("DEAD") only by the     *)
(* connect of startup, where run's except clause holds no exception.       *)
C11_LoopEndsOnlyAtStartup ==
    pc = "DEAD" => caught = ""

\* a step stores the new entry g for the user u: g was not a key of the
\* map nor named in the document on disk, and the document on disk now
\* holds a record of g added by u
NewlyStored(g, u) ==
    /\ g \notin Keys(name_map)
    /\ Named(OnDisk(disk), g) = {}
    /\ \E i \in Named(OnDisk(disk'), g) : OnDisk(disk')[i].added_by = u

(* C12: for a message whose text matches the add binding, the addition     *)
(* handler posts exactly one confirmation, to the channel of the event and *)
(* naming the normalized text, if and only if add_good_name stored a new   *)
(* entry with added_by the sender of the event; on a duplicate, on a       *)
(* failed write and on a store that is not connected it posts nothing; and *)
(* no other handler posts a confirmation.                                  *)
C12_ConfirmationIffStored ==
    [][ IF AddHandlerRuns
        THEN \A g \in {normalize(Match(handlers[hidx], event).group1.value)} :
                IF NewlyStored(g, event.user)
                THEN NewMessages =
                        <<Msg(event.channel, <<"Good name ">> \o g \o <<" recorded.">>)>>
                ELSE NewMessages = <<>>
        ELSE HandlerRuns => SelectSeq(NewMessages, IsConfirmation) = <<>> ]_vars

\* a step invokes Bot.post_good_name_alert
AlertHandlerRuns == HandlerRuns /\ handlers[hidx].target = "post_good_name_alert"

(* C13: on a message that matches the alert binding, with a connected      *)
(* store that holds entries, the alert handler posts exactly one message,  *)
(* to the channel of the event, naming a key the map holds at that moment, *)
(* and leaves the in-memory map, the in-memory list and the document on    *)
(* disk as they were.                                                      *)
C13_AlertNamesStoredEntry ==
    [][ ( /\ AlertHandlerRuns
          /\ is_resource_connected(data)
          /\ Keys(name_map) /= {} )
        => ( /\ \E k \in Keys(name_map) :
                   NewMessages = <<Msg(event.channel, <<"Good name: ">> \o k)>>
             /\ name_map' = name_map
             /\ data' = data
             /\ disk' = disk ) ]_vars

\* a message of Bot.post_good_name_alert, and the name it gives
IsAlert(m) == Len(m.text) >= 1 /\ m.text[1] = "Good name: "
AlertedName(m) == SubSeq(m.text, 2, Len(m.text))

(* C14: when the store has no entry to give (not connected, or empty) the  *)
(* alert handler posts no "Good name: X" message and raises nothing: every *)
(* "Good name: X" message posted names a key of the map, and a call of     *)
(* get_good_name made by the handler raises no exception.                  *)
C14_AlertOnlyNamesEntries ==
    /\ \A i \in 1..Len(sent) : IsAlert(sent[i]) => AlertedName(sent[i]) \in Keys(name_map)
    /\ last.op = "get_good_name" => last.exc = ""

\* an event that is not a message, or a message whose text is missing,
\* empty or made of blanks only
Ignorable(ev) ==
    \/ ev.type /= "message"
    \/ ev.text.isNone
    \/ \A i \in 1..Len(ev.text.value) : ev.text.value[i] \in Whitespace

\* a step is a call of Bot._handle_data on the next item of the batch
DataHandled == pc = "HANDLING" /\ hidx = 0 /\ batch /= <<>> /\ batch' = Tail(batch)

(* C15: an event whose type is not "message", and a message whose text is  *)
(* missing, empty or whitespace-only, does not reach the handlers: the     *)
(* call of _handle_data evaluates no binding and invokes no handler, posts *)
(* nothing, leaves the store as it was and raises nothing, and no handler  *)
(* is invoked for that event afterwards.                                   *)
C15_IgnorableEventsNotDispatched ==
    [][ /\ (DataHandled /\ Ignorable(Head(batch)))
           => /\ event' = Head(batch)
              /\ hidx' = 0
              /\ sent' = sent
              /\ UNCHANGED storeVars
              /\ caught' = caught
              /\ pc' \in {"RUNNING", "HANDLING"}
        /\ Ignorable(event') => (hidx' = 0 /\ invoked' = <<>> /\ thrown' = "") ]_vars

\* an event that is not a message, with a text the alert binding matches,
\* was handed to _handle_data on a store that had a name to give
C15_Witness ==
    /\ event.type = "hello"
    /\ event.text = Some(<<"name alert">>)
    /\ \E i \in 1..Len(handlers) : regex_match(handlers[i].regex, event.text.value).matched
    /\ Keys(name_map) /= {}
    /\ pc = "RUNNING"
    /\ sent = <<>>

(* C16: normalization (strip, then capitalize) is idempotent: the          *)
(* normalized form n of every text handed to add_good_name satisfies       *)
(* normalize(n) = n, so offering n again to the store that took the text   *)
(* is a duplicate: add_good_name returns None, writes nothing and leaves   *)
(* the map and the document as they are.                                   *)
C16_NormalizeIdempotent ==
    (last.op = "add_good_name" /\ last.exc = "")
    => \A n \in {normalize(last.goodname)} :
          /\ normalize(n) = n
          /\ \A u \in Users, w \in WriteOutcomes :
                \A r \in {add_good_name(disk, data, name_map, n, u, w)} :
                   /\ r.ret = None
                   /\ r.exc = ""
                   /\ r.write = ""
                   /\ r.name_map = name_map
                   /\ r.disk = disk

(* C17: the rewrite of the document by add_good_name is atomic: in every   *)
(* reachable state, after a write that failed part-way included, the file  *)
(* of a store that loaded its document is a complete well-formed document  *)
(* that holds every record it held before; a failed write neither loses    *)
(* nor truncates earlier records.                                          *)
C17_RewriteAtomic ==
    [][ disk.kind = "document"
        => /\ disk'.kind = "document"
           /\ \A i \in 1..Len(OnDisk(disk)) :
                 \E j \in 1..Len(OnDisk(disk')) : OnDisk(disk')[j] = OnDisk(disk)[i] ]_vars

(* C19: the document on disk only ever holds entries that were loaded at   *)
(* startup or whose add_good_name call returned the normalized text: an    *)
(* entry whose call returned None because its write failed is not put on   *)
(* disk by the next successful add_good_name of a different text.          *)
C19_FailedEntryNeverWritten ==
    [][ ( /\ last.op = "add_good_name"
          /\ last.write \in FailedWrites
          /\ AddCalled
          /\ last'.write = "ok"
          /\ normalize(last'.goodname) /= normalize(last.goodname) )
        => Named(OnDisk(disk'), normalize(last.goodname)) = {} ]_vars

\* the handlers the claims call built-in, and the one for unknown actions
BuiltIn == {"post_good_name_alert", "add_good_name"}

(* C18: building the dispatch registry never fails on a bad configuration  *)
(* entry: the registry is built for every configuration, and every action  *)
(* name that is not one of the built-in handlers (alert, addition) is      *)
(* bound to missing_action, which on a match only logs: it posts nothing,  *)
(* raises nothing and leaves the store as it was.                          *)
C18_UnknownActionBoundToMissingAction ==
    /\ handlers /= <<>>
    /\ \A i \in 1..Len(handlers) : handlers[i].target \in BuiltIn \cup {"missing_action"}
    /\ \A j \in 1..Len(invoked) : handlers[invoked[j]].target \notin BuiltIn => thrown = ""

(* C20: no event is lost within a batch: every event one rtm_read() call   *)
(* returned is handed to _handle_data, also when the handling of an        *)
(* earlier event of the batch raised and sent the loop through its except  *)
(* clause.  The events still to be handled only ever lose their first,     *)
(* and that one to _handle_data.                                           *)
C20_NoEventOfBatchLost ==
    [][ batch /= <<>>
        => \/ batch' = batch
           \/ batch' = Tail(batch) /\ event' = Head(batch) ]_vars

=============================================================================
